---- MODULE Spec2Model ----
(***************************************************************************)
(* Model of the URL shortening service of src/src/main.py and              *)
(* src/src/database.py: the code generator (md5 -> base 62 -> first six    *)
(* characters), the urls table with its two UNIQUE columns, and the        *)
(* /encode/ and /decode/ handlers run by concurrent requests, each with    *)
(* its own session.  A handler is cut into steps at its awaits.            *)
(*                                                                         *)
(* Text that the code takes apart (short URLs, hex digests, codes) is a    *)
(* sequence of one-character strings; an original URL is only hashed and   *)
(* compared, and stays an atomic string.  A Python int is kept as its      *)
(* sequence of hexadecimal digits, most significant first, without leading *)
(* zeros (<<>> is 0), so that the 128-bit digest keeps its full width.     *)
(*                                                                         *)
(* Spec is the service with its storage answering every call; SpecFault    *)
(* adds the storage errors that an awaited call can raise; SpecBase62 runs *)
(* encode_base62 alone, on number, into encoded.                          *)
(***************************************************************************)
EXTENDS Integers, Sequences, FiniteSets, TLC

VARIABLES urls, sessions, pc, op, arg, short_url, db_url, resp,
          issued, after, number, encoded

vars == <<urls, sessions, pc, op, arg, short_url, db_url, resp,
          issued, after, number, encoded>>

\* ------------------------------------------------------------------ bounds

\* Number of requests that can be in flight at once.
NProcs == 2

\* Number of hexadecimal digits of the integers given to encode_base62 alone.
MaxHexLen == 3

Procs == 1..NProcs

None == "None"

\* ------------------------------------------------------- original URLs

U1 == "https://www.markant.com/en"
U2 == "https://www.markant.com/en/?page=18578"
U3 == "https://www.markant.com/en/?page=31470"
\* Stands for a string whose MD5 digest is zero (no such string is known).
UZ == "<preimage of the zero digest>"

URLs == {U1, U2, U3, UZ}

\* hashlib.md5(original_url.encode()).hexdigest(), tabulated for URLs.
\* U2 and U3 are two strings whose digests agree in their first six
\* base-62 digits.
md5_hexdigest(original_url) ==
    CASE original_url = U1 ->
           <<"b","a","8","7","9","0","0","0","f","4","e","6","6","b","7","e",
             "2","8","f","d","0","0","b","d","5","e","8","8","6","e","7","b">>
      [] original_url = U2 ->
           <<"5","7","5","2","c","c","4","1","0","f","7","4","d","e","d","5",
             "3","6","3","e","3","d","f","7","a","e","a","d","7","6","9","9">>
      [] original_url = U3 ->
           <<"5","7","5","2","c","c","4","0","9","e","4","e","a","8","4","d",
             "9","5","a","b","d","b","3","6","e","8","a","7","8","4","a","2">>
      [] original_url = UZ ->
           <<"0","0","0","0","0","0","0","0","0","0","0","0","0","0","0","0",
             "0","0","0","0","0","0","0","0","0","0","0","0","0","0","0","0">>

\* ------------------------------------------------------------ integers

HexDigits == <<"0","1","2","3","4","5","6","7","8","9","a","b","c","d","e","f">>

HexValue(c) == (CHOOSE i \in 1..16 : HexDigits[i] = c) - 1

RECURSIVE StripZeros(_)
StripZeros(ds) ==
    IF ds # <<>> /\ Head(ds) = 0 THEN StripZeros(Tail(ds)) ELSE ds

\* int(url_hash, 16)
int16(url_hash) == StripZeros([i \in 1..Len(url_hash) |-> HexValue(url_hash[i])])

\* Long division of num by the small divisor d: the digits of the quotient
\* (leading zeros kept) followed by the remainder.
RECURSIVE LongDiv(_, _, _, _)
LongDiv(num, d, q, rem) ==
    IF num = <<>> THEN [q |-> q, rem |-> rem]
    ELSE LET cur == rem * 16 + Head(num)
         IN  LongDiv(Tail(num), d, Append(q, cur \div d), cur % d)

\* divmod(num, d)
divmod(num, d) ==
    LET r == LongDiv(num, d, <<>>, 0)
    IN  [quot |-> StripZeros(r.q), rem |-> r.rem]

\* ------------------------------------------------------- code generator

\* string.digits + string.ascii_letters
BASE62 ==
    <<"0","1","2","3","4","5","6","7","8","9",
      "a","b","c","d","e","f","g","h","i","j","k","l","m",
      "n","o","p","q","r","s","t","u","v","w","x","y","z",
      "A","B","C","D","E","F","G","H","I","J","K","L","M",
      "N","O","P","Q","R","S","T","U","V","W","X","Y","Z">>

\* The digits left in the order of the loop.
reversed_not(s) == s

reversed(s) == [i \in 1..Len(s) |-> s[Len(s) + 1 - i]]

\* The while loop of encode_base62: base62 collects the digits, least
\* significant first.
RECURSIVE Base62Loop(_, _)
Base62Loop(num, base62) ==
    IF num = <<>> THEN base62
    ELSE LET dm == divmod(num, 62)
         IN  Base62Loop(dm.quot, Append(base62, BASE62[dm.rem + 1]))

encode_base62(num) ==
    IF num = <<>> THEN <<BASE62[1]>>
    ELSE reversed(Base62Loop(num, <<>>))

\* s[:n]
Slice(s, n) == SubSeq(s, 1, IF Len(s) < n THEN Len(s) ELSE n)

\* The generator without the [:6].
generate_short_url_whole(original_url) ==
    encode_base62(int16(md5_hexdigest(original_url)))

generate_short_url(original_url) ==
    LET url_hash == md5_hexdigest(original_url)
        hash_int == int16(url_hash)
        code     == encode_base62(hash_int)
    IN  Slice(code, 6)

\* encode_base62(hash_int) over URLs, computed once: the digest in base 62,
\* before the [:6].
hash_base62 == [u \in URLs |-> encode_base62(int16(md5_hexdigest(u)))]

\* generate_short_url over URLs, computed once.
short_code == [u \in URLs |-> generate_short_url(u)]

\* --------------------------------------------------------- short URLs

\* "http://short.est/"
PREFIX == <<"h","t","t","p",":","/","/","s","h","o","r","t",".","e","s","t","/">>

\* The f-string with its last '/' lost.
ShortURL_no_slash(code) == SubSeq(PREFIX, 1, Len(PREFIX) - 1) \o code

\* f"http://short.est/{code}"
ShortURL(code) == PREFIX \o code

\* s.startswith(pre)
startswith(s, pre) == Len(s) >= Len(pre) /\ SubSeq(s, 1, Len(pre)) = pre

\* s.split('/')[0], the segment before the first '/': the wrong end of the
\* split.
split_first(s) ==
    LET slashes == {i \in 1..Len(s) : s[i] = "/"}
        first   == IF slashes = {} THEN Len(s) + 1
                   ELSE CHOOSE i \in slashes : \A j \in slashes : i <= j
    IN  SubSeq(s, 1, first - 1)

\* s.split('/')[-1]: what follows the last '/', or all of s without one.
split_last(s) ==
    LET slashes == {i \in 1..Len(s) : s[i] = "/"}
        last    == IF slashes = {} THEN 0
                   ELSE CHOOSE i \in slashes : \A j \in slashes : j <= i
    IN  SubSeq(s, last + 1, Len(s))

\* Short URLs sent to /decode/.
InvalidURL == <<"h","t","t","p",":","/","/","i","n","v","a","l","i","d",".",
                "u","r","l","/","a","b","c","1","2","3">>
Nonexistent == ShortURL(<<"n","o","n","e","x","i","s","t","e","n","t">>)
Nested == ShortURL(<<"x","/">> \o short_code[U1])

DecodeInputs ==
    {ShortURL(short_code[u]) : u \in URLs}
      \cup {InvalidURL, Nonexistent, Nested, PREFIX, short_code[U1]}

\* ------------------------------------------------------------ storage

\* URL(original_url=..., short_url=...) once inserted.
URL(id, original_url, code) ==
    [id |-> id, original_url |-> original_url, short_url |-> code]

\* id = Column(Integer, primary_key=True): the next rowid.
NextId ==
    IF urls = {} THEN 1
    ELSE (CHOOSE i \in {r.id : r \in urls} : \A r \in urls : r.id <= i) + 1

\* The table with short_url not declared unique.
UniqueViolation_original_only(original_url, code) ==
    \E r \in urls : r.original_url = original_url

\* The table with neither column declared unique.
UniqueViolation_none(original_url, code) == FALSE

\* original_url = Column(String, unique=True), short_url likewise.
UniqueViolation(original_url, code) ==
    \/ \E r \in urls : r.original_url = original_url
    \/ \E r \in urls : r.short_url = code

\* The select without its filter.
SelectByOriginal_all(original_url) == urls

\* select(URL).filter(URL.original_url == original_url)
SelectByOriginal(original_url) == {r \in urls : r.original_url = original_url}

\* The select without its where clause.
SelectByShort_all(code) == urls

\* select(URL).where(URL.short_url == code)
SelectByShort(code) == {r \in urls : r.short_url = code}

\* --------------------------------------------------------- responses

IntegrityError == [type |-> "IntegrityError"]

\* What an awaited storage call raises when the storage fails.
OperationalError == [type |-> "OperationalError"]

HTTPException(status_code, detail) ==
    [type |-> "HTTPException", status_code |-> status_code, detail |-> detail]

InvalidFormatDetail ==
    "Invalid short URL format. The URL must start with http://short.est/."
NotFoundDetail == "Short URL not found"

\* except Exception as e: raise HTTPException(status_code=500, detail=str(e))
EncodeExcept(e) == [status |-> 500, detail |-> [str |-> e]]
DecodeExcept(e) == [status |-> 500, detail |-> [str |-> e]]

\* ShortURLModel(short_url=...) and URLModel(original_url=...), sent with 200.
ShortURLModel(s) == [status |-> 200, short_url |-> s]
URLModel(u) == [status |-> 200, original_url |-> u]

\* The body of decode_url on short URL s against the table as it is: the
\* responses it can end with (first() of several rows is any of them).
decode_url(s) ==
    IF ~startswith(s, PREFIX)
    THEN {DecodeExcept(HTTPException(400, InvalidFormatDetail))}
    ELSE LET url_id_str == split_last(s)
             found      == SelectByShort(url_id_str)
         IN  IF found = {}
             THEN {DecodeExcept(HTTPException(404, NotFoundDetail))}
             ELSE {URLModel(db_url_.original_url) : db_url_ \in found}

\* ------------------------------------------------------------- state

Init ==
    /\ urls = {}
    /\ sessions = {}
    /\ pc = [p \in Procs |-> "idle"]
    /\ op = [p \in Procs |-> None]
    /\ arg = [p \in Procs |-> None]
    /\ short_url = [p \in Procs |-> None]
    /\ db_url = [p \in Procs |-> {}]
    /\ resp = [p \in Procs |-> None]
    /\ issued = [u \in URLs |-> {}]
    /\ after = [p \in Procs |-> FALSE]
    /\ number = <<>>
    /\ encoded = <<>>

\* The handler of p ends with response r.
Respond(p, o, a, r) ==
    /\ resp' = [resp EXCEPT ![p] = r]
    /\ pc' = [pc EXCEPT ![p] = "done"]
    /\ issued' = IF o = "encode" /\ r.status = 200
                 THEN [issued EXCEPT ![a] = @ \cup {r.short_url}]
                 ELSE issued

\* A request to /encode/ arrives: get_db opens its session, and the handler
\* runs through the select by original_url up to db.commit().
EncodeSelect(p, u) ==
    /\ pc[p] = "idle"
    /\ sessions' = sessions \cup {p}
    /\ op' = [op EXCEPT ![p] = "encode"]
    /\ arg' = [arg EXCEPT ![p] = u]
    /\ after' = [after EXCEPT ![p] = issued[u] # {}]
    /\ LET found == SelectByOriginal(u)
       IN  IF found # {}
           THEN /\ \E existing_url \in found :
                      Respond(p, "encode", u,
                              ShortURLModel(ShortURL(existing_url.short_url)))
                /\ UNCHANGED short_url
           ELSE /\ short_url' = [short_url EXCEPT ![p] = short_code[u]]
                /\ pc' = [pc EXCEPT ![p] = "enc_commit"]
                /\ UNCHANGED <<resp, issued>>
    /\ UNCHANGED <<urls, db_url, number, encoded>>

\* A commit that replaces the rows in its way (INSERT OR REPLACE).
EncodeCommit_upsert(p) ==
    /\ pc[p] = "enc_commit"
    /\ urls' = {r \in urls : r.original_url # arg[p] /\ r.short_url # short_url[p]}
                 \cup {URL(NextId, arg[p], short_url[p])}
    /\ db_url' = [db_url EXCEPT ![p] = {URL(NextId, arg[p], short_url[p])}]
    /\ pc' = [pc EXCEPT ![p] = "enc_refresh"]
    /\ UNCHANGED <<resp, issued>>
    /\ UNCHANGED <<sessions, op, arg, short_url, after, number, encoded>>

\* db.commit(): the INSERT, which the UNIQUE columns may reject.
EncodeCommit(p) ==
    /\ pc[p] = "enc_commit"
    /\ IF UniqueViolation(arg[p], short_url[p])
       THEN /\ Respond(p, "encode", arg[p], EncodeExcept(IntegrityError))
            /\ UNCHANGED <<urls, db_url>>
       ELSE /\ urls' = urls \cup {URL(NextId, arg[p], short_url[p])}
            /\ db_url' = [db_url EXCEPT ![p] = {URL(NextId, arg[p], short_url[p])}]
            /\ pc' = [pc EXCEPT ![p] = "enc_refresh"]
            /\ UNCHANGED <<resp, issued>>
    /\ UNCHANGED <<sessions, op, arg, short_url, after, number, encoded>>

\* db.refresh(db_url) and the return.
EncodeRefresh(p) ==
    /\ pc[p] = "enc_refresh"
    /\ Respond(p, "encode", arg[p], ShortURLModel(ShortURL(short_url[p])))
    /\ UNCHANGED <<urls, sessions, op, arg, short_url, db_url, after, number, encoded>>

\* A decode that deletes the row it has read.
Decode_consuming(p, s) ==
    /\ pc[p] = "idle"
    /\ sessions' = sessions \cup {p}
    /\ op' = [op EXCEPT ![p] = "decode"]
    /\ arg' = [arg EXCEPT ![p] = s]
    /\ after' = [after EXCEPT ![p] = \E u \in URLs : s \in issued[u]]
    /\ \E r \in decode_url(s) : Respond(p, "decode", s, r)
    /\ urls' = IF startswith(s, PREFIX) THEN urls \ SelectByShort(split_last(s))
               ELSE urls
    /\ UNCHANGED <<short_url, db_url, number, encoded>>

\* A request to /decode/ arrives: get_db opens its session, and the handler
\* runs through its only await, the select by short_url, to its end.
Decode(p, s) ==
    /\ pc[p] = "idle"
    /\ sessions' = sessions \cup {p}
    /\ op' = [op EXCEPT ![p] = "decode"]
    /\ arg' = [arg EXCEPT ![p] = s]
    /\ after' = [after EXCEPT ![p] = \E u \in URLs : s \in issued[u]]
    /\ \E r \in decode_url(s) : Respond(p, "decode", s, r)
    /\ UNCHANGED <<urls, short_url, db_url, number, encoded>>

\* A get_db that closes the session only after a return, with no "async
\* with" around the yield.
Release_no_finally(p) ==
    /\ pc[p] = "done"
    /\ sessions' = IF resp[p].status = 200 THEN sessions \ {p} ELSE sessions
    /\ pc' = [pc EXCEPT ![p] = "idle"]
    /\ op' = [op EXCEPT ![p] = None]
    /\ arg' = [arg EXCEPT ![p] = None]
    /\ short_url' = [short_url EXCEPT ![p] = None]
    /\ db_url' = [db_url EXCEPT ![p] = {}]
    /\ resp' = [resp EXCEPT ![p] = None]
    /\ after' = [after EXCEPT ![p] = FALSE]
    /\ UNCHANGED <<urls, issued, number, encoded>>

\* The response is sent and get_db closes the session.
Release(p) ==
    /\ pc[p] = "done"
    /\ sessions' = sessions \ {p}
    /\ pc' = [pc EXCEPT ![p] = "idle"]
    /\ op' = [op EXCEPT ![p] = None]
    /\ arg' = [arg EXCEPT ![p] = None]
    /\ short_url' = [short_url EXCEPT ![p] = None]
    /\ db_url' = [db_url EXCEPT ![p] = {}]
    /\ resp' = [resp EXCEPT ![p] = None]
    /\ after' = [after EXCEPT ![p] = FALSE]
    /\ UNCHANGED <<urls, issued, number, encoded>>

Next ==
    \/ \E p \in Procs, u \in URLs : EncodeSelect(p, u)
    \/ \E p \in Procs : EncodeCommit(p)
    \/ \E p \in Procs : EncodeRefresh(p)
    \/ \E p \in Procs, s \in DecodeInputs : Decode(p, s)
    \/ \E p \in Procs : Release(p)

Spec == Init /\ [][Next]_vars

\* ------------------------------------------------------ storage errors

\* A request to /encode/ arrives and its select raises.
EncodeSelectFails(p, u) ==
    /\ pc[p] = "idle"
    /\ sessions' = sessions \cup {p}
    /\ op' = [op EXCEPT ![p] = "encode"]
    /\ arg' = [arg EXCEPT ![p] = u]
    /\ after' = [after EXCEPT ![p] = issued[u] # {}]
    /\ Respond(p, "encode", u, EncodeExcept(OperationalError))
    /\ UNCHANGED <<urls, short_url, db_url, number, encoded>>

\* A commit that raises with its row already written.
EncodeCommitFails_written(p) ==
    /\ pc[p] = "enc_commit"
    /\ urls' = urls \cup {URL(NextId, arg[p], short_url[p])}
    /\ Respond(p, "encode", arg[p], EncodeExcept(OperationalError))
    /\ UNCHANGED <<sessions, op, arg, short_url, db_url, after, number, encoded>>

\* db.commit() raises and nothing is written.
EncodeCommitFails(p) ==
    /\ pc[p] = "enc_commit"
    /\ Respond(p, "encode", arg[p], EncodeExcept(OperationalError))
    /\ UNCHANGED <<urls, sessions, op, arg, short_url, db_url, after, number, encoded>>

\* db.refresh(db_url) raises, after the commit.
EncodeRefreshFails(p) ==
    /\ pc[p] = "enc_refresh"
    /\ Respond(p, "encode", arg[p], EncodeExcept(OperationalError))
    /\ UNCHANGED <<urls, sessions, op, arg, short_url, db_url, after, number, encoded>>

\* A request to /decode/ with the prefix arrives and its select raises.
DecodeSelectFails(p, s) ==
    /\ pc[p] = "idle"
    /\ startswith(s, PREFIX)
    /\ sessions' = sessions \cup {p}
    /\ op' = [op EXCEPT ![p] = "decode"]
    /\ arg' = [arg EXCEPT ![p] = s]
    /\ after' = [after EXCEPT ![p] = \E u \in URLs : s \in issued[u]]
    /\ Respond(p, "decode", s, DecodeExcept(OperationalError))
    /\ UNCHANGED <<urls, short_url, db_url, number, encoded>>

\* The requests of the runs with storage errors: the URLs with a known
\* digest, and a short URL of each way a decode can end.
FaultURLs == {U1, U2, U3}
FaultDecodeInputs == {ShortURL(short_code[U2]), InvalidURL, Nonexistent}

NextFault ==
    \/ \E p \in Procs, u \in FaultURLs : EncodeSelect(p, u)
    \/ \E p \in Procs : EncodeCommit(p)
    \/ \E p \in Procs : EncodeRefresh(p)
    \/ \E p \in Procs, s \in FaultDecodeInputs : Decode(p, s)
    \/ \E p \in Procs : Release(p)
    \/ \E p \in Procs, u \in FaultURLs : EncodeSelectFails(p, u)
    \/ \E p \in Procs : EncodeCommitFails(p)
    \/ \E p \in Procs : EncodeRefreshFails(p)
    \/ \E p \in Procs, s \in FaultDecodeInputs : DecodeSelectFails(p, s)

SpecFault == Init /\ [][NextFault]_vars

\* ------------------------------------------------- encode_base62 alone

\* The integers below 16^MaxHexLen, as their hexadecimal digits.
Numbers == {StripZeros(ds) : ds \in [1..MaxHexLen -> 0..15]}

InitBase62 ==
    /\ urls = {}
    /\ sessions = {}
    /\ pc = [p \in Procs |-> "idle"]
    /\ op = [p \in Procs |-> None]
    /\ arg = [p \in Procs |-> None]
    /\ short_url = [p \in Procs |-> None]
    /\ db_url = [p \in Procs |-> {}]
    /\ resp = [p \in Procs |-> None]
    /\ issued = [u \in URLs |-> {}]
    /\ after = [p \in Procs |-> FALSE]
    /\ number \in Numbers
    /\ encoded = <<>>

\* encode_base62(number) returns.
EncodeBase62 ==
    /\ encoded = <<>>
    /\ encoded' = encode_base62(number)
    /\ UNCHANGED <<urls, sessions, pc, op, arg, short_url, db_url, resp,
                   issued, after, number>>

NextBase62 == EncodeBase62

SpecBase62 == InitBase62 /\ [][NextBase62]_vars

\* ================================================================ claims

EncodeDone(p) == pc[p] = "done" /\ op[p] = "encode"
DecodeDone(p) == pc[p] = "done" /\ op[p] = "decode"

IdempotentEncode ==
    /\ \A u \in URLs : Cardinality(issued[u]) <= 1
    /\ \A u \in URLs :
          issued[u] # {} => Cardinality({r \in urls : r.original_url = u}) = 1
    /\ \A p \in Procs :
          op[p] = "encode" /\ after[p]
            => /\ pc[p] = "done"
               /\ db_url[p] = {}
               /\ resp[p].status = 200
               /\ issued[arg[p]] = {resp[p].short_url}

\* A second encode of u has returned after the first one had.
IdempotentEncodeWitness ==
    \E p \in Procs :
        EncodeDone(p) /\ after[p] /\ resp[p].status = 200
          /\ Cardinality({r \in urls : r.original_url = arg[p]}) = 1

\* C3 (race on one new URL): an encode of u that ends while the table
\* holds a record for u, the loser of a race included, ends with status 200
\* and that record's short URL, never with a server error.
RaceLoserRecovers ==
    \A p \in Procs : \A r \in urls :
        EncodeDone(p) /\ r.original_url = arg[p]
            => resp[p] = [status |-> 200, short_url |-> PREFIX \o r.short_url]

\* C4 (format rejection): a decode of a string without the prefix ends with
\* status 400 and the invalid-format detail.
FormatRejection ==
    \A p \in Procs :
        DecodeDone(p) /\ ~startswith(arg[p], PREFIX)
            => resp[p].status = 400 /\ resp[p].detail = InvalidFormatDetail

\* C5 (not found): a decode of the prefix followed by a string that is no
\* stored short code ends with status 404 and the not-found detail.
NotFound ==
    \A p \in Procs :
        /\ DecodeDone(p)
        /\ startswith(arg[p], PREFIX)
        /\ SubSeq(arg[p], Len(PREFIX) + 1, Len(arg[p])) \notin {r.short_url : r \in urls}
        => resp[p].status = 404 /\ resp[p].detail = NotFoundDetail

\* The commit of p is about to meet a record of another URL with p's code.
Collides(p) ==
    /\ pc[p] = "enc_commit"
    /\ \E r \in urls : r.short_url = short_url[p] /\ r.original_url # arg[p]

\* Another URL of the model has the code of record r.
Contested(r) ==
    \E u \in URLs : u # r.original_url /\ short_code[u] = r.short_url

\* C6 (code collision): the commit of an encode whose code is stored for
\* another URL ends the call at once with status 500 and leaves the table as
\* it was; a decode of the prefix and a code that two URLs share returns
\* the URL of the stored record.
CodeCollision ==
    [][ /\ \A p \in Procs :
              Collides(p) /\ pc'[p] # pc[p]
                => pc'[p] = "done" /\ resp'[p].status = 500 /\ urls' = urls
        /\ \A p \in Procs : \A r \in urls :
              /\ pc[p] = "idle"
              /\ op'[p] = "decode"
              /\ arg'[p] = PREFIX \o r.short_url
              /\ Contested(r)
              => resp'[p] = [status |-> 200, original_url |-> r.original_url]
      ]_vars

\* An encode has failed on a collision, the table holds the other URL's
\* record only, and a decode of the shared code has ended.
CodeCollisionWitness ==
    \E p, q \in Procs : \E r \in urls :
        /\ EncodeDone(p) /\ resp[p].status = 500
        /\ r.short_url = short_url[p] /\ r.original_url # arg[p]
        /\ ~ \E r2 \in urls : r2.original_url = arg[p]
        /\ DecodeDone(q) /\ arg[q] = PREFIX \o r.short_url
        /\ resp[q].status = 200

\* C7 (uniqueness): no two records of the table share original_url, and no
\* two share short_url.
StorageUniqueness ==
    \A r1, r2 \in urls :
        r1 # r2 => r1.original_url # r2.original_url /\ r1.short_url # r2.short_url

\* Two encodes of one URL have raced: one has inserted, the other's insert
\* was rejected.
StorageUniquenessWitness ==
    \E p, q \in Procs :
        /\ p # q /\ op[p] = "encode" /\ op[q] = "encode" /\ arg[p] = arg[q]
        /\ db_url[p] # {}
        /\ pc[q] = "done" /\ resp[q].status = 500
        /\ Cardinality(urls) >= 2

\* C8 as claimed (fixed length): every stored short_url is six characters
\* long.
FixedLengthCodes ==
    \A r \in urls : Len(r.short_url) = 6

\* C8 as amended: every stored short_url has between one and six
\* characters; it has six when the digest has six base-62 digits or more,
\* and is the whole base-62 digest when that has fewer.
BoundedLengthCodes ==
    \A r \in urls :
        /\ Len(r.short_url) \in 1..6
        /\ IF Len(hash_base62[r.original_url]) >= 6
           THEN Len(r.short_url) = 6
           ELSE r.short_url = hash_base62[r.original_url]

\* A six-character code and a shorter one are stored.
BoundedLengthCodesWitness ==
    \E r1, r2 \in urls : Len(r1.short_url) = 6 /\ Len(r2.short_url) < 6

\* u and another URL with a different code have both been encoded.
EncodedPair(u) ==
    /\ issued[u] # {}
    /\ \E u2 \in URLs :
          u2 # u /\ short_code[u2] # short_code[u] /\ issued[u2] # {}

\* C9 (bijectivity without collision): once two URLs with different codes
\* have both been encoded, a decode of the short URL of either returns that
\* URL; and no step, an encode of the other URL included, changes the rows
\* that the code of an encoded URL selects.
Bijectivity ==
    [][ /\ \A p \in Procs : \A u \in URLs :
              /\ EncodedPair(u)
              /\ pc[p] = "idle" /\ op'[p] = "decode"
              /\ arg'[p] = PREFIX \o short_code[u]
              => resp'[p] = [status |-> 200, original_url |-> u]
        /\ \A u \in URLs :
              issued[u] # {}
                => /\ {r.original_url : r \in SelectByShort(short_code[u])} = {u}
                   /\ SelectByShort(short_code[u])' = SelectByShort(short_code[u])
      ]_vars

\* Two URLs with different codes have been encoded, the encode of one still
\* holds its response, and a decode of that one's short URL, begun after
\* the encode returned, has ended.
BijectivityWitness ==
    \E p, q \in Procs :
        /\ EncodeDone(p) /\ db_url[p] # {} /\ resp[p].status = 200
        /\ DecodeDone(q) /\ after[q] /\ arg[q] = PREFIX \o short_code[arg[p]]
        /\ EncodedPair(arg[p])

\* C10 (encode result): a record's short_url is generate_short_url of its
\* original_url; a successful encode of u returns the prefix followed by
\* generate_short_url(u), and the table holds u with that code.
EncodeResult ==
    /\ \A r \in urls : r.short_url = short_code[r.original_url]
    /\ \A p \in Procs :
          EncodeDone(p) /\ resp[p].status = 200
            => /\ resp[p].short_url = PREFIX \o short_code[arg[p]]
               /\ \E r \in urls :
                     r.original_url = arg[p] /\ r.short_url = short_code[arg[p]]

\* One encode has returned from the insert branch and another from the
\* already-exists branch.
EncodeResultWitness ==
    \E p, q \in Procs :
        /\ EncodeDone(p) /\ resp[p].status = 200 /\ db_url[p] # {}
        /\ EncodeDone(q) /\ resp[q].status = 200 /\ db_url[q] = {}

\* C11 (decode is read-only): no step of a decode, its arrival and lookup
\* or the release that follows, whatever its response, changes the table.
DecodeReadOnly ==
    [][\A p \in Procs :
          (op[p] = "decode" \/ op'[p] = "decode") /\ pc'[p] # pc[p]
            => urls' = urls
      ]_vars

\* Over a table that is not empty, one decode has succeeded and another
\* has failed.
DecodeReadOnlyWitness ==
    \E p, q \in Procs :
        /\ urls # {}
        /\ DecodeDone(p) /\ resp[p].status = 200
        /\ DecodeDone(q) /\ resp[q].status = 500

ErrorAtomicity ==
    [][\A p \in Procs :
          op'[p] = "encode" /\ pc[p] # "done" /\ pc'[p] = "done"
            /\ resp'[p].status # 200
              => db_url'[p] \cap urls' = {}
      ]_vars

\* C13 (error atomicity), amended: an encode that ends in an error raised by
\* its select or by its commit (a rejected insert or a storage error) leaves
\* the table as it was; an error raised by db.refresh, after the commit,
\* leaves the record of the call in the table. No step removes a record, and
\* every record of the table has its original_url and the short code of that
\* URL.
ErrorAtomicityCommitted ==
    [][ /\ \A p \in Procs :
              op'[p] = "encode" /\ pc[p] \in {"idle", "enc_commit"}
                /\ pc'[p] = "done" /\ resp'[p].status # 200
                  => urls' = urls /\ db_url'[p] = {}
        /\ \A p \in Procs :
              pc[p] = "enc_refresh" /\ pc'[p] = "done"
                => urls' = urls /\ db_url'[p] # {} /\ db_url'[p] \subseteq urls'
        /\ urls \subseteq urls'
        /\ \A r \in urls' :
              r.original_url \in URLs /\ r.short_url = short_code[r.original_url]
      ]_vars

\* One encode has ended in the error of its commit with no record of its
\* URL in the table, another in the error of its refresh with its record
\* there.
ErrorAtomicityWitness ==
    \E p, q \in Procs :
        /\ EncodeDone(p) /\ resp[p] = EncodeExcept(OperationalError)
        /\ short_url[p] # None /\ db_url[p] = {}
        /\ ~ \E r \in urls : r.original_url = arg[p]
        /\ EncodeDone(q) /\ resp[q] = EncodeExcept(OperationalError)
        /\ db_url[q] # {} /\ db_url[q] \subseteq urls

\* C14 (session release): the open sessions are exactly those of the
\* requests in flight, one for each: a request opens its session when it
\* arrives and the session is closed when the request is over, whether the
\* handler returned, raised an HTTPException or met a storage error; with no
\* request in flight no session is open.
SessionRelease ==
    /\ sessions = {p \in Procs : pc[p] # "idle"}
    /\ (\A p \in Procs : pc[p] = "idle") => sessions = {}

\* An encode has returned a short URL and is over, a later decode has ended
\* in an error and holds the only open session.
SessionReleaseWitness ==
    \E p \in Procs :
        /\ \E u \in URLs : issued[u] # {}
        /\ DecodeDone(p) /\ resp[p].status = 500
        /\ sessions = {p}
        /\ \A q \in Procs \ {p} : pc[q] = "idle"

\* The value of the digits ds in base b, most significant digit first.
RECURSIVE Horner(_, _, _)
Horner(ds, b, acc) ==
    IF ds = <<>> THEN acc ELSE Horner(Tail(ds), b, acc * b + Head(ds))

Digits10 == <<"0","1","2","3","4","5","6","7","8","9">>
LowerCase ==
    <<"a","b","c","d","e","f","g","h","i","j","k","l","m",
      "n","o","p","q","r","s","t","u","v","w","x","y","z">>
UpperCase ==
    <<"A","B","C","D","E","F","G","H","I","J","K","L","M",
      "N","O","P","Q","R","S","T","U","V","W","X","Y","Z">>

\* 0-9 to '0'-'9', 10-35 to 'A'-'Z', 36-61 to 'a'-'z'.
UpperFirst == Digits10 \o UpperCase \o LowerCase
\* 0-9 to '0'-'9', 10-35 to 'a'-'z', 36-61 to 'A'-'Z'.
LowerFirst == Digits10 \o LowerCase \o UpperCase

\* The string str is the base-62 representation of the integer num in the
\* given alphabet: its digits are of the alphabet, the most significant
\* first, with no leading zero, "0" for zero, and their value is num.
IsBase62Of(str, num, alphabet) ==
    /\ Len(str) >= 1
    /\ \A i \in 1..Len(str) : \E v \in 0..61 : str[i] = alphabet[v + 1]
    /\ Len(str) > 1 => str[1] # alphabet[1]
    /\ num = <<>> => str = <<"0">>
    /\ Horner([i \in 1..Len(str) |->
                  (CHOOSE v \in 0..61 : str[i] = alphabet[v + 1])], 62, 0)
         = Horner(num, 16, 0)

\* C15 (base-62 conversion), as claimed: encode_base62(n) is the base-62
\* representation of n in the alphabet with 10-35 as 'A'-'Z' and 36-61 as
\* 'a'-'z'.
Base62UpperFirst ==
    encoded # <<>> => IsBase62Of(encoded, number, UpperFirst)

\* C15 (base-62 conversion), amended: for every integer n below
\* 16^MaxHexLen, encode_base62(n) is the base-62 representation of n, most
\* significant digit first and with no leading zero, in the alphabet with
\* 0-9 as '0'-'9', 10-35 as 'a'-'z' and 36-61 as 'A'-'Z';
\* encode_base62(0) is "0"; the value of the digits is n.
Base62Conversion ==
    encoded # <<>> => IsBase62Of(encoded, number, LowerFirst)

\* 656 = 10 * 62 + 36 has been encoded as "aA".
Base62ConversionWitness ==
    /\ number = <<2, 9, 0>>
    /\ encoded = <<"a", "A">>

====
